---- MODULE Spec2Model ----
(***************************************************************************)
(* PyBlinkoBot (src/main.py): a Telegram bot that relays messages to the   *)
(* Blinko note API.  File messages are collected per media group in        *)
(* context.bot_data['media_groups'] by handle_file, which also (re)starts  *)
(* a one-shot job; when the job runs, process_media_group pops the group,  *)
(* uploads every file and writes one note.  Text messages go to           *)
(* handle_text, which writes a note at once.                               *)
(*                                                                         *)
(* Threads.  main() starts an Updater (python-telegram-bot 13: Updater,    *)
(* Filters, CallbackContext as the only handler argument).  Its dispatcher *)
(* thread runs the handlers one update at a time; its JobQueue is an       *)
(* APScheduler BackgroundScheduler whose due jobs are taken out of the job *)
(* store and handed to a thread pool.  So a job's callback runs beside the *)
(* handler that is being executed and beside other callbacks; what one     *)
(* thread does between two accesses to shared data is one action here.     *)
(***************************************************************************)
EXTENDS Naturals, Sequences, FiniteSets, TLC

\* Number of updates the dispatcher receives in one behaviour.
MaxMsgs == 3

\* message.media_group_id of grouped messages (Telegram: strings of digits).
RealGroupIds == {"701"}
\* message.media_group_id of a message outside any group (None).
NoGroup == ""
\* message.caption values; "" is a missing caption (None).
Captions == {"", "a", "b"}
\* The attachment fields the media filters of main() let through.
Kinds == {"document", "photo", "video", "audio"}
\* The result of upload_file: a descriptor, None, or an exception that is
\* no RequestException.
UploadResults == {"ok", "none", "raise"}
\* What lines 111-112 do: the file is written; get_file or the retrieval
\* raises before anything is written; the write raises after the file was
\* created.
DownloadResults == {"ok", "no_file", "partial"}
\* AUTHORIZED_CHAT_ID and another sender.
AuthorizedUser == "owner"
Senders == {AuthorizedUser, "stranger"}
\* message.text of a text message: a plain text and a bot command.
Texts == {"buy milk", "/start"}

VARIABLES
    msgs,          \* the updates received so far; message_id is the index
    media_groups,  \* context.bot_data['media_groups']: group id -> record
    records,       \* the record objects ever created: messages, original_message
    jobs,          \* the jobs in the job store of context.job_queue
    handler,       \* the dispatcher thread: where it is in handle_file
    fin,           \* the runs of process_media_group, by the id of their job
    notes,         \* the calls of create_note made so far
    outcome,       \* how the handler call of each message ended
    cancelled,     \* the ids of the jobs removed by schedule_removal
    files          \* the working directory: path -> the message whose bytes it holds

vars == <<msgs, media_groups, records, jobs, handler, fin, notes, outcome, cancelled,
          files>>

Ids == 1..MaxMsgs

VirtualGroupIdOfAll(m) == "single_"

\* f"single_{update.message.message_id}"
VirtualGroupId(m) == "single_" \o ToString(m)

\* The name run_once gives a job that is scheduled without one.
DefaultJobName == "process_media_group"

IdleHandler == [pc |-> "idle", m |-> 0, original_message |-> 0, existing_jobs |-> {}]

\* A run of process_media_group.  upload_result is what upload_file is about
\* to give back while its finally clause runs; posted lists, for every upload
\* the server accepted, the message and the bytes the file held; replies
\* counts the calls of reply_text.
NoRun == [pc |-> "none", media_group_id |-> "", original_message |-> 0, rec |-> 0,
          at_removal |-> <<>>, i |-> 0, caption |-> "", attachment_objects |-> <<>>,
          attempted |-> <<>>, status |-> "none", cause |-> "none",
          upload_result |-> "", posted |-> <<>>, replies |-> 0]

Init ==
    /\ msgs = <<>>
    /\ media_groups = <<>>
    /\ records = <<>>
    /\ jobs = {}
    /\ handler = IdleHandler
    /\ fin = [f \in Ids |-> NoRun]
    /\ notes = <<>>
    /\ outcome = <<>>
    /\ cancelled = {}
    /\ files = <<>>

----------------------------------------------------------------------------
\* main(): the dispatcher hands a file message of the authorized user to
\* handle_file and a text message to handle_text; the next update waits
\* until the handler has returned.

\* Filters.command: the text starts with a bot command
IsCommand(text) == text = "/start"

HandlesFileOfAnyone(msg) == msg.kind \in Kinds /\ ~IsCommand(msg.text)

\* line 205: authorized_filter & all_media_filters & ~Filters.command
HandlesFile(msg) ==
    msg.from_user = AuthorizedUser /\ msg.kind \in Kinds /\ ~IsCommand(msg.text)

\* line 208: authorized_filter & Filters.text & ~Filters.command
HandlesText(msg) ==
    msg.from_user = AuthorizedUser /\ msg.text # "" /\ ~IsCommand(msg.text)

\* line 99: the local name of a photo is made of its file id
PhotoName(m) == "photo" \o ToString(m) \o ".jpg"

\* A file name no other message has.
OwnName == "file" \o ToString(Len(msgs) + 1)

\* The messages received so far that carry group id gid.
OfGroup(gid) == {p \in 1..Len(msgs) : msgs[p].media_group_id = gid}

Latest(S) == CHOOSE x \in S : \A y \in S : y <= x

\* Whether a message of group gid that arrives now finds the job of the
\* group's previous message still in the job store (in_window, kept with
\* the message for the record).
InWindow(gid) ==
    OfGroup(gid) # {} => \E j \in jobs : j.id = Latest(OfGroup(gid))

\* A message with an attachment; lines 97-103 give the file name.
FileMessage(sender, gid, cap, kind, name) ==
    [from_user |-> sender, media_group_id |-> gid, caption |-> cap, kind |-> kind,
     file_name |-> IF kind = "photo" THEN PhotoName(Len(msgs) + 1) ELSE name,
     text |-> "", in_window |-> InWindow(gid)]

\* A message without attachment: text, or neither text nor attachment.
PlainMessage(sender, kind, text) ==
    [from_user |-> sender, media_group_id |-> NoGroup, caption |-> "", kind |-> kind,
     file_name |-> "", text |-> text, in_window |-> TRUE]

\* lines 205 and 208: the first handler whose filter lets the message
\* through is called; line 152 chooses the branch of handle_file.  A message
\* no filter lets through is dropped.
Dispatch(msg) ==
    IF HandlesFile(msg)
    THEN IF msg.media_group_id # NoGroup THEN "L156" ELSE "L179"
    ELSE IF HandlesText(msg) THEN "L143"
    ELSE "idle"

Receive(msg) ==
    /\ handler.pc = "idle"
    /\ Len(msgs) < MaxMsgs
    /\ msgs' = Append(msgs, msg)
    /\ outcome' = Append(outcome, IF Dispatch(msg) = "idle" THEN "ignored" ELSE "running")
    /\ handler' = IF Dispatch(msg) = "idle" THEN IdleHandler
                  ELSE [IdleHandler EXCEPT !.pc = Dispatch(msg), !.m = Len(msgs) + 1]
    /\ UNCHANGED <<media_groups, records, jobs, fin, notes, cancelled, files>>

StartHandleFile(gid, cap, kind, name) ==
    Receive(FileMessage(AuthorizedUser, gid, cap, kind, name))

Gid == msgs[handler.m].media_group_id

HandlerEnds(how) ==
    /\ handler' = IdleHandler
    /\ outcome' = [outcome EXCEPT ![handler.m] = how]

\* line 156: if media_group_id not in context.bot_data['media_groups']
HF156 ==
    /\ handler.pc = "L156"
    /\ handler' = [handler EXCEPT !.pc = IF Gid \notin DOMAIN media_groups
                                         THEN "L157" ELSE "L162"]
    /\ UNCHANGED <<msgs, media_groups, records, jobs, fin, notes, outcome, cancelled, files>>

NewRecord(m) == [messages |-> <<m>>, original_message |-> m]

\* lines 157-160: a new record under the group id
HF157 ==
    /\ handler.pc = "L157"
    /\ records' = Append(records, NewRecord(handler.m))
    /\ media_groups' = (Gid :> (Len(records) + 1)) @@ media_groups
    /\ handler' = [handler EXCEPT !.pc = "L165"]
    /\ UNCHANGED <<msgs, jobs, fin, notes, outcome, cancelled, files>>

AppendMessage(recs, rid, m) ==
    [recs EXCEPT ![rid].messages = Append(@, m)]

\* line 162: append to the record under the group id; KeyError when the
\* record was popped after the test of line 156.  The subscripts and the
\* append are one step: the interpreter does not switch threads in between.
HF162 ==
    /\ handler.pc = "L162"
    /\ IF Gid \in DOMAIN media_groups
       THEN /\ records' = AppendMessage(records, media_groups[Gid], handler.m)
            /\ handler' = [handler EXCEPT !.pc = "L165"]
            /\ UNCHANGED outcome
       ELSE /\ HandlerEnds("KeyError")
            /\ UNCHANGED records
    /\ UNCHANGED <<msgs, media_groups, jobs, fin, notes, cancelled, files>>

\* lines 163-166: job_context reads the record's original_message; KeyError
\* when the record was popped in between
HF165 ==
    /\ handler.pc = "L165"
    /\ IF Gid \in DOMAIN media_groups
       THEN /\ handler' = [handler EXCEPT
                  !.pc = "L168",
                  !.original_message = records[media_groups[Gid]].original_message]
            /\ UNCHANGED outcome
       ELSE HandlerEnds("KeyError")
    /\ UNCHANGED <<msgs, media_groups, records, jobs, fin, notes, cancelled, files>>

JobsByDefaultName(js, name) == {j \in js : j.name = DefaultJobName}

JobsByName(js, name) == {j \in js : j.name = name}

\* lines 167-168: existing_jobs = get_jobs_by_name(str(media_group_id))
HF168 ==
    /\ handler.pc = "L168"
    /\ handler' = [handler EXCEPT !.pc = "L169",
                                  !.existing_jobs = {j.id : j \in JobsByName(jobs, Gid)}]
    /\ UNCHANGED <<msgs, media_groups, records, jobs, fin, notes, outcome, cancelled, files>>

RemoveJobKeeps(js, id) == js

RemoveJob(js, id) == {j \in js : j.id # id}

\* lines 169-170: job.schedule_removal() for one job of existing_jobs, in
\* the order they were scheduled; JobLookupError when the job has left the
\* job store since line 168
HF170 ==
    /\ handler.pc = "L169"
    /\ handler.existing_jobs # {}
    /\ LET id == CHOOSE x \in handler.existing_jobs :
                     \A y \in handler.existing_jobs : x <= y
       IN IF \E j \in jobs : j.id = id
          THEN /\ jobs' = RemoveJob(jobs, id)
               /\ cancelled' = cancelled \cup {id}
               /\ handler' = [handler EXCEPT !.existing_jobs = @ \ {id}]
               /\ UNCHANGED outcome
          ELSE /\ HandlerEnds("JobLookupError")
               /\ UNCHANGED <<jobs, cancelled>>
    /\ UNCHANGED <<msgs, media_groups, records, fin, notes, files>>

NewJob(id, name, gid, orig) ==
    [id |-> id, name |-> name, media_group_id |-> gid, original_message |-> orig]

\* lines 171-176: run_once(process_media_group, 1.5, job_context, name)
HF171 ==
    /\ handler.pc = "L169"
    /\ handler.existing_jobs = {}
    /\ jobs' = jobs \cup {NewJob(handler.m, Gid, Gid, handler.original_message)}
    /\ HandlerEnds("ok")
    /\ UNCHANGED <<msgs, media_groups, records, fin, notes, cancelled, files>>

\* lines 178-183: the record of a message outside any group
HF179 ==
    /\ handler.pc = "L179"
    /\ records' = Append(records, NewRecord(handler.m))
    /\ media_groups' = (VirtualGroupId(handler.m) :> (Len(records) + 1)) @@ media_groups
    /\ handler' = [handler EXCEPT !.pc = "L184", !.original_message = handler.m]
    /\ UNCHANGED <<msgs, jobs, fin, notes, outcome, cancelled, files>>

\* line 184: run_once(process_media_group, 0.1, job_context)
HF184 ==
    /\ handler.pc = "L184"
    /\ jobs' = jobs \cup {NewJob(handler.m, DefaultJobName, VirtualGroupId(handler.m),
                                 handler.original_message)}
    /\ HandlerEnds("ok")
    /\ UNCHANGED <<msgs, media_groups, records, fin, notes, cancelled, files>>

----------------------------------------------------------------------------
\* handle_text, on the dispatcher thread.

\* line 143: the reply; nothing catches an exception of the call
HT143(sent) ==
    /\ handler.pc = "L143"
    /\ IF sent
       THEN handler' = [handler EXCEPT !.pc = "L144"] /\ UNCHANGED outcome
       ELSE HandlerEnds("TelegramError")
    /\ UNCHANGED <<msgs, media_groups, records, jobs, fin, notes, cancelled, files>>

\* line 144: the calls of create_note that handle_text makes:
\* create_note(content=update.message.text); line 60 turns the missing
\* attachments into the empty list
TextNote(by, content, success) ==
    <<[by |-> by, content |-> content, attachments |-> <<>>, success |-> success]>>

HT144(success) ==
    /\ handler.pc = "L144"
    /\ notes' = notes \o TextNote(handler.m, msgs[handler.m].text, success)
    /\ handler' = [handler EXCEPT !.pc = IF success THEN "L146" ELSE "L148"]
    /\ UNCHANGED <<msgs, media_groups, records, jobs, fin, outcome, cancelled, files>>

\* lines 145-148: the final text
HT146(sent) ==
    /\ handler.pc \in {"L146", "L148"}
    /\ HandlerEnds(IF sent THEN "ok" ELSE "TelegramError")
    /\ UNCHANGED <<msgs, media_groups, records, jobs, fin, notes, cancelled, files>>

----------------------------------------------------------------------------
\* The job queue: a due job leaves the job store and its callback is handed
\* to a pool thread (lines 74-76 read the job context).

Fire(j) ==
    /\ j \in jobs
    /\ jobs' = jobs \ {j}
    /\ fin' = [fin EXCEPT ![j.id] = [NoRun EXCEPT !.pc = "L77",
                                       !.media_group_id = j.media_group_id,
                                       !.original_message = j.original_message]]
    /\ UNCHANGED <<msgs, media_groups, records, handler, notes, outcome, cancelled, files>>

JobRuns == \E j \in jobs : Fire(j)

----------------------------------------------------------------------------
\* process_media_group, one run per fired job.

Messages(f) == records[fin[f].rec].messages

PopGroupKeeps(table, gid) == table

PopGroupClears(table, gid) == <<>>

\* line 77: bot_data.get('media_groups', {}).pop(media_group_id, None)
PopGroup(table, gid) == [k \in DOMAIN table \ {gid} |-> table[k]]

\* lines 96-105: the attachment kinds the loop handles
Recognized(kind) == kind \in {"document", "photo", "video", "audio"}

\* lines 93-105: the position of the next message, at or after i, that the
\* loop does not skip; past the end when there is none
RECURSIVE NextAttachment(_, _)
NextAttachment(messages, i) ==
    IF i > Len(messages) THEN i
    ELSE IF Recognized(msgs[messages[i]].kind) THEN i
    ELSE NextAttachment(messages, i + 1)

CaptionOfFirstMessage(messages, i) == msgs[messages[1]].caption

\* lines 84-88: the first caption that is not empty
RECURSIVE FirstCaption(_, _)
FirstCaption(messages, i) ==
    IF i > Len(messages) THEN ""
    ELSE IF msgs[messages[i]].caption # "" THEN msgs[messages[i]].caption
    ELSE FirstCaption(messages, i + 1)

\* line 90: the two placeholder texts (in the source they are Chinese for
\* "file from Telegram" and "media group from Telegram")
FilePlaceholder == "file from Telegram"
GroupPlaceholder == "media group from Telegram"

\* lines 84-90
CaptionOf(messages) ==
    IF FirstCaption(messages, 1) # "" THEN FirstCaption(messages, 1)
    ELSE IF Len(messages) = 1 THEN FilePlaceholder ELSE GroupPlaceholder

\* A call of the Telegram API that raises ends the run: nothing in
\* process_media_group catches it.
Raised(f, line) == [fin EXCEPT ![f].pc = "raised", ![f].cause = line]

\* Where the loop of line 93 goes on from position i.
LoopAt(run, i) ==
    [run EXCEPT !.i = NextAttachment(records[run.rec].messages, i),
                !.pc = IF NextAttachment(records[run.rec].messages, i)
                            > Len(records[run.rec].messages)
                       THEN "L129" ELSE "L107"]

\* lines 77-79: take the record out of the table; return when there is none
PMG77(f) ==
    /\ fin[f].pc = "L77"
    /\ IF fin[f].media_group_id \in DOMAIN media_groups
          /\ records[media_groups[fin[f].media_group_id]].messages # <<>>
       THEN fin' = [fin EXCEPT
                ![f].pc = "L82",
                ![f].rec = media_groups[fin[f].media_group_id],
                ![f].at_removal = records[media_groups[fin[f].media_group_id]].messages]
       ELSE fin' = [fin EXCEPT ![f].pc = "returned"]
    /\ media_groups' = PopGroup(media_groups, fin[f].media_group_id)
    /\ UNCHANGED <<msgs, records, jobs, handler, notes, outcome, cancelled, files>>

\* lines 81-90: the status reply to the original message, then the caption
PMG82(f, sent) ==
    /\ fin[f].pc = "L82"
    /\ IF sent
       THEN fin' = [fin EXCEPT ![f] = LoopAt([fin[f] EXCEPT
                !.status = "processing",
                !.replies = @ + 1,
                !.caption = CaptionOf(Messages(f))], 1)]
       ELSE fin' = Raised(f, "L82")
    /\ UNCHANGED <<msgs, media_groups, records, jobs, handler, notes, outcome, cancelled, files>>

\* line 107: the progress text of message i
PMG107(f, sent) ==
    /\ fin[f].pc = "L107"
    /\ IF sent
       THEN fin' = [fin EXCEPT ![f].pc = "L111", ![f].status = "uploading"]
       ELSE fin' = Raised(f, "L107")
    /\ UNCHANGED <<msgs, media_groups, records, jobs, handler, notes, outcome, cancelled, files>>

\* line 109: temp_path = f"./{file_name}"
TempPath(file_name) == "./" \o file_name

\* The temp_path of the message a run is at.
Path(run) == TempPath(msgs[records[run.rec].messages[run.i]].file_name)

\* os.path.exists
Exists(path) == path \in DOMAIN files

\* open(path, 'wb') and write: the file holds the bytes of message m
WriteFile(fs, path, m) == (path :> m) @@ fs

RemoveFileKeeps(fs, path) == fs

\* os.remove
RemoveFile(fs, path) == [p \in DOMAIN fs \ {path} |-> fs[p]]

\* lines 111-112: get_file and download write the file at temp_path over
\* whatever is there; an exception goes to line 124, with or without a file
PMG111(f, got) ==
    /\ fin[f].pc = "L111"
    /\ fin' = [fin EXCEPT ![f].pc = IF got = "ok" THEN "L114" ELSE "L126",
                          ![f].attempted = Append(@, Messages(f)[fin[f].i])]
    /\ files' = IF got = "no_file" THEN files
                ELSE WriteFile(files, Path(fin[f]), Messages(f)[fin[f].i])
    /\ UNCHANGED <<msgs, media_groups, records, jobs, handler, notes, outcome, cancelled>>

\* lines 38-51 of upload_file: open raises when there is no file at the
\* path; otherwise the file as it is now is posted and the server's answer
\* decides the result.  The finally clause comes next.
PMG114(f, result) ==
    /\ fin[f].pc = "L114"
    /\ IF ~Exists(Path(fin[f]))
       THEN fin' = [fin EXCEPT ![f].pc = "L53", ![f].upload_result = "raise"]
       ELSE fin' = [fin EXCEPT
                ![f].pc = "L53",
                ![f].upload_result = result,
                ![f].posted = IF result = "ok"
                              THEN Append(@, [message |-> Messages(f)[fin[f].i],
                                              bytes |-> files[Path(fin[f])]])
                              ELSE @]
    /\ UNCHANGED <<msgs, media_groups, records, jobs, handler, notes, outcome, cancelled,
                   files>>

CollectInFront(attachment_objects, result, m) ==
    IF result = "ok" THEN <<m>> \o attachment_objects ELSE attachment_objects

\* lines 115-123: what the result of upload_file does to attachment_objects
Collect(attachment_objects, result, m) ==
    IF result = "ok" THEN Append(attachment_objects, m) ELSE attachment_objects

\* lines 114-127: upload_file is left.  Its result is collected or logged
\* and the loop goes on with the next message; an exception is caught at
\* line 124.
Attempted(run, result) ==
    IF result = "raise"
    THEN [run EXCEPT !.pc = "L126", !.upload_result = ""]
    ELSE LoopAt([run EXCEPT !.attachment_objects =
                     Collect(@, result, records[run.rec].messages[run.i]),
                            !.upload_result = ""], run.i + 1)

\* line 53 of upload_file: if os.path.exists(file_path)
PMG53(f) ==
    /\ fin[f].pc = "L53"
    /\ fin' = [fin EXCEPT ![f] = IF Exists(Path(fin[f])) THEN [@ EXCEPT !.pc = "L54"]
                                 ELSE Attempted(@, @.upload_result)]
    /\ UNCHANGED <<msgs, media_groups, records, jobs, handler, notes, outcome, cancelled,
                   files>>

\* line 54 of upload_file: os.remove(file_path); FileNotFoundError, in place
\* of the result, when the file has gone since line 53
PMG54(f) ==
    /\ fin[f].pc = "L54"
    /\ fin' = [fin EXCEPT ![f] = Attempted(@, IF Exists(Path(fin[f]))
                                              THEN @.upload_result ELSE "raise")]
    /\ files' = RemoveFile(files, Path(fin[f]))
    /\ UNCHANGED <<msgs, media_groups, records, jobs, handler, notes, outcome, cancelled>>

\* lines 124-126: the exception is logged; if os.path.exists(temp_path)
PMG126(f) ==
    /\ fin[f].pc = "L126"
    /\ fin' = [fin EXCEPT ![f] = IF Exists(Path(fin[f])) THEN [@ EXCEPT !.pc = "L127"]
                                 ELSE LoopAt(@, @.i + 1)]
    /\ UNCHANGED <<msgs, media_groups, records, jobs, handler, notes, outcome, cancelled,
                   files>>

\* line 127: os.remove(temp_path); FileNotFoundError, which nothing catches,
\* when the file has gone since line 126
PMG127(f) ==
    /\ fin[f].pc = "L127"
    /\ fin' = IF Exists(Path(fin[f]))
              THEN [fin EXCEPT ![f] = LoopAt(@, @.i + 1)]
              ELSE Raised(f, "L127")
    /\ files' = RemoveFile(files, Path(fin[f]))
    /\ UNCHANGED <<msgs, media_groups, records, jobs, handler, notes, outcome, cancelled>>

\* lines 129-133: nothing uploaded: the failure text and return; otherwise
\* the text that announces the note
PMG129(f, sent) ==
    /\ fin[f].pc = "L129"
    /\ IF ~sent
       THEN fin' = Raised(f, IF fin[f].attachment_objects = <<>> THEN "L130" ELSE "L133")
       ELSE IF fin[f].attachment_objects = <<>>
       THEN fin' = [fin EXCEPT ![f].pc = "done", ![f].status = "failed_uploads"]
       ELSE fin' = [fin EXCEPT ![f].pc = "L134", ![f].status = "creating"]
    /\ UNCHANGED <<msgs, media_groups, records, jobs, handler, notes, outcome, cancelled, files>>

\* lines 57-68: one call of create_note
NoteCall(by, content, attachments, success) ==
    [by |-> by, content |-> content, attachments |-> attachments, success |-> success]

\* line 134: create_note(content=caption, attachments=attachment_objects)
PMG134(f, success) ==
    /\ fin[f].pc = "L134"
    /\ notes' = Append(notes, NoteCall(f, fin[f].caption, fin[f].attachment_objects, success))
    /\ fin' = [fin EXCEPT ![f].pc = IF success THEN "L137" ELSE "L139"]
    /\ UNCHANGED <<msgs, media_groups, records, jobs, handler, outcome, cancelled, files>>

\* lines 136-139: the final text
PMG136(f, sent) ==
    /\ fin[f].pc \in {"L137", "L139"}
    /\ IF sent
       THEN fin' = [fin EXCEPT ![f].pc = "done",
                               ![f].status = IF fin[f].pc = "L137" THEN "saved"
                                             ELSE "failed_note"]
       ELSE fin' = Raised(f, fin[f].pc)
    /\ UNCHANGED <<msgs, media_groups, records, jobs, handler, notes, outcome, cancelled, files>>

----------------------------------------------------------------------------
\* What the environment may do: whether a call of the Telegram API returns,
\* what upload_file and create_note give back.

ReceiveFileFrom(groups, captions, kinds, names) ==
    \E gid \in groups, cap \in captions, kind \in kinds, name \in names :
        StartHandleFile(gid, cap, kind, name)

\* handle_file for a message of a media group: lines 153-176
HandleGrouped ==
    \/ HF156 \/ HF157 \/ HF162 \/ HF165 \/ HF168 \/ HF170 \/ HF171

\* handle_file for a message outside any group: lines 178-184
HandleSingle ==
    \/ HF179 \/ HF184

ProcessMediaGroup(f, sends, downloads, uploads, writes) ==
    \/ PMG77(f)
    \/ \E sent \in sends : PMG82(f, sent)
    \/ \E sent \in sends : PMG107(f, sent)
    \/ \E got \in downloads : PMG111(f, got)
    \/ \E result \in uploads : PMG114(f, result)
    \/ PMG53(f)
    \/ PMG54(f)
    \/ \E sent \in sends : PMG129(f, sent)
    \/ \E success \in writes : PMG134(f, success)
    \/ \E sent \in sends : PMG136(f, sent)

\* lines 124-127: the except clause of the loop
CleanUp(f) ==
    \/ PMG126(f)
    \/ PMG127(f)

\* Every interleaving of the handler, the job queue and the runs, for
\* photos without caption that all upload, in one group and outside any.
Next ==
    \/ ReceiveFileFrom(RealGroupIds \cup {NoGroup}, {""}, {"photo"}, {""})
    \/ HandleGrouped
    \/ HandleSingle
    \/ JobRuns
    \/ \E f \in Ids : ProcessMediaGroup(f, {TRUE}, {"ok"}, {"ok"}, {TRUE})

Spec == Init /\ [][Next]_vars

\* Every outcome of every call a run makes, for documents of one group that
\* all have the same file name.
NextOutcomes ==
    \/ ReceiveFileFrom(RealGroupIds, {""}, {"document"}, {"scan.pdf"})
    \/ HandleGrouped
    \/ JobRuns
    \/ \E f \in Ids : ProcessMediaGroup(f, BOOLEAN, DownloadResults, UploadResults, BOOLEAN)
    \/ \E f \in Ids : CleanUp(f)

SpecOutcomes == Init /\ [][NextOutcomes]_vars

\* Every caption on every message, for videos of one group.
NextCaptions ==
    \/ ReceiveFileFrom(RealGroupIds, Captions, {"video"}, {OwnName})
    \/ HandleGrouped
    \/ JobRuns
    \/ \E f \in Ids : ProcessMediaGroup(f, {TRUE}, {"ok"}, {"ok"}, {TRUE})

SpecCaptions == Init /\ [][NextCaptions]_vars

\* What line 109 makes of a missing file_name (None).
MissingFileName == "None"

\* Audio files outside any group whose file_name is missing, with every
\* outcome of the retrieval and of upload_file.
NextFiles ==
    \/ ReceiveFileFrom({NoGroup}, {""}, {"audio"}, {MissingFileName})
    \/ HandleSingle
    \/ JobRuns
    \/ \E f \in Ids : ProcessMediaGroup(f, {TRUE}, DownloadResults, UploadResults, {TRUE})
    \/ \E f \in Ids : CleanUp(f)

SpecFiles == Init /\ [][NextFiles]_vars

\* handle_text: lines 142-148
HandleText(sends, writes) ==
    \/ \E sent \in sends : HT143(sent)
    \/ \E success \in writes : HT144(success)
    \/ \E sent \in sends : HT146(sent)

\* Texts and commands of both senders, a message without text or
\* attachment, photos of a stranger and photos of the authorized user in one
\* group, with every outcome of the calls handle_text makes.
NextDispatch ==
    \/ ReceiveFileFrom(RealGroupIds, {""}, {"photo"}, {""})
    \/ \E sender \in Senders, text \in Texts : Receive(PlainMessage(sender, "text", text))
    \/ Receive(PlainMessage(AuthorizedUser, "sticker", ""))
    \/ \E gid \in RealGroupIds : Receive(FileMessage("stranger", gid, "", "photo", ""))
    \/ HandleGrouped
    \/ HandleText(BOOLEAN, BOOLEAN)
    \/ JobRuns
    \/ \E f \in Ids : ProcessMediaGroup(f, {TRUE}, {"ok"}, {"ok"}, {TRUE})

SpecDispatch == Init /\ [][NextDispatch]_vars

----------------------------------------------------------------------------
\* The claims.

Range(seq) == {seq[k] : k \in 1..Len(seq)}

\* The runs of process_media_group started for group id gid.
RunsOf(gid) == {f \in Ids : fin[f].pc # "none" /\ fin[f].media_group_id = gid}

\* The runs that took a record out of the table.
Removed == {f \in Ids : fin[f].rec # 0}

Ended(f) == fin[f].pc \in {"done", "raised", "returned"}

\* The messages of group gid in the order they arrived.
ArrivalOrder(gid) ==
    SelectSeq([k \in 1..Len(msgs) |-> k], LAMBDA k : msgs[k].media_group_id = gid)

NotesBy(F) == {n \in 1..Len(notes) : notes[n].by \in F}

\* C1: when every message of a real group arrived while the job of the
\* previous one was still pending, then, once the handler and the job queue
\* have nothing left for the group, one run has taken all its messages, and
\* once the runs have ended create_note was called exactly once for the
\* group, with at most as many attachments as messages.
C1_WholeGroupOneNote ==
    \A gid \in RealGroupIds :
        LET all == ArrivalOrder(gid) IN
        ( /\ all # <<>>
          /\ \A m \in Range(all) : msgs[m].in_window /\ outcome[m] # "running"
          /\ \A j \in jobs : j.media_group_id # gid
          /\ \A f \in RunsOf(gid) : fin[f].pc # "L77" )
        => /\ \E f \in RunsOf(gid) : fin[f].at_removal = all
           /\ (\A f \in RunsOf(gid) : Ended(f))
              => /\ Cardinality(NotesBy(RunsOf(gid))) = 1
                 /\ \A n \in NotesBy(RunsOf(gid)) : Len(notes[n].attachments) <= Len(all)

\* C2 as stated: no two runs take a record for the same group id, and the
\* messages of a removed record stay as they were at removal.
C2_GroupIdFinalizedOnce ==
    /\ \A f1, f2 \in Removed : fin[f1].media_group_id = fin[f2].media_group_id => f1 = f2
    /\ \A f \in Removed : records[fin[f].rec].messages = fin[f].at_removal

\* C2 as amended: no two runs take the same record, a record a run has taken
\* is out of the table, and its messages stay as they were at removal.
C2_RecordFinalizedOnce ==
    /\ \A f1, f2 \in Removed : fin[f1].rec = fin[f2].rec => f1 = f2
    /\ \A f \in Removed :
          /\ \A gid \in DOMAIN media_groups : media_groups[gid] # fin[f].rec
          /\ records[fin[f].rec].messages = fin[f].at_removal

\* Two runs took two records of one group id, the later one while the
\* earlier run was still going on.
C2_Witness ==
    \E f1, f2 \in Removed :
        /\ f1 # f2
        /\ fin[f1].media_group_id = fin[f2].media_group_id
        /\ ~Ended(f1)

\* Whether the handler call of message m has put a job in the job store.
Scheduled(m) ==
    \/ \E j \in jobs : j.id = m
    \/ m \in cancelled
    \/ fin[m].pc # "none"

\* C3: the message that found no record under its group id is the first
\* element of a record of its own, the only one while its handler runs; it
\* is in no other record; its handler call ends with a job of its own; and
\* the messages of a record a run has taken stay as they were at removal.
C3_NewIndependentRecord ==
    /\ \A r \in 1..Len(records) :
          LET m == records[r].original_message IN
          /\ records[r].messages[1] = m
          /\ outcome[m] = "running" /\ handler.pc \in {"L165", "L184"}
                => records[r].messages = <<m>>
          /\ \A r2 \in 1..Len(records) : r2 # r => m \notin Range(records[r2].messages)
          /\ outcome[m] # "running" => Scheduled(m)
    /\ \A f \in Removed : records[fin[f].rec].messages = fin[f].at_removal

\* C4: no two jobs in the job store are for the same group id, and when
\* handle_file schedules the job of a real group no job of that name is left.
C4_OneTimerPerGroup ==
    /\ \A j1, j2 \in jobs : j1.media_group_id = j2.media_group_id => j1 = j2
    /\ handler.pc = "L169" /\ handler.existing_jobs = {}
          => \A j \in jobs : j.media_group_id # Gid

\* A job of a real group is pending after an earlier job of the group was
\* removed.
C4_Witness ==
    \E j \in jobs : \E c \in cancelled :
        /\ j.media_group_id \in RealGroupIds
        /\ msgs[c].media_group_id = j.media_group_id

\* The messages of group gid whose handler call returned.
Handled(gid) == {m \in OfGroup(gid) : outcome[m] = "ok"}

\* C5: a removed job is neither pending nor has it run; a job that has run
\* is not pending any more; and the pending job of a real group is the one
\* scheduled by the latest message of the group that handle_file handled.
C5_SupersededNeverFires ==
    /\ \A id \in cancelled : fin[id].pc = "none" /\ \A j \in jobs : j.id # id
    /\ \A id \in Ids : fin[id].pc # "none" => \A j \in jobs : j.id # id
    /\ \A j \in jobs : j.media_group_id \in RealGroupIds
          => j.id = Latest(Handled(j.media_group_id))

\* A job was removed and the job of a later message of its group has run.
C5_Witness ==
    \E id \in cancelled : \E f \in Ids :
        /\ fin[f].pc # "none"
        /\ f > id
        /\ fin[f].media_group_id = msgs[id].media_group_id

\* The texts that end a status reply: lines 130, 137 and 139.
TerminalStatus == {"failed_uploads", "saved", "failed_note"}

\* The messages of a run's batch that the loop of line 93 does not skip.
Attachments(f) ==
    SelectSeq(fin[f].at_removal, LAMBDA m : Recognized(msgs[m].kind))

\* C6: a run that took a record and has ended left a terminal text on its
\* status reply.
C6_TerminalStatus ==
    \A f \in Removed : Ended(f) => fin[f].status \in TerminalStatus

\* C7: a run that has ended after it tried every file of its batch, with some
\* but not all uploads failed, called create_note exactly once, with one
\* attachment per upload that succeeded, and left the success text.
C7_PartialFailureSaved ==
    \A f \in Removed :
        ( /\ Ended(f)
          /\ fin[f].attempted = Attachments(f)
          /\ Len(fin[f].attachment_objects) > 0
          /\ Len(fin[f].attachment_objects) < Len(fin[f].attempted) )
        => /\ Cardinality(NotesBy({f})) = 1
           /\ \A n \in NotesBy({f}) : notes[n].attachments = fin[f].attachment_objects
           /\ fin[f].status = "saved"

\* C8: a run that has ended after it tried every file of its batch, with no
\* upload that succeeded, did not call create_note and left the failure text.
C8_TotalFailureReported ==
    \A f \in Removed :
        ( /\ Ended(f)
          /\ fin[f].attempted = Attachments(f)
          /\ fin[f].attachment_objects = <<>> )
        => /\ NotesBy({f}) = {}
           /\ fin[f].status = "failed_uploads"

\* The lines of one attempt: retrieval, upload_file and the except clause.
InAttempt(f) == fin[f].pc \in {"L114", "L53", "L54", "L126", "L127"}

\* C9: whatever the attempts on the files before did, a run at message i has
\* tried every file before i, a run at line 129 or later has tried every file
\* of its batch, and a run is only ever ended by a call of the Telegram API
\* that raised, never by a file.
C9_FailureContained ==
    \A f \in Removed :
        /\ fin[f].pc \in {"L107", "L111"}
              => fin[f].attempted = SubSeq(Attachments(f), 1, Len(fin[f].attempted))
                 /\ Attachments(f)[Len(fin[f].attempted) + 1] = fin[f].at_removal[fin[f].i]
        /\ InAttempt(f)
              => fin[f].attempted = SubSeq(Attachments(f), 1, Len(fin[f].attempted))
                 /\ fin[f].attempted[Len(fin[f].attempted)] = fin[f].at_removal[fin[f].i]
        /\ fin[f].pc \in {"L129", "L134", "L137", "L139", "done"}
              => fin[f].attempted = Attachments(f)
        /\ fin[f].pc = "raised"
              => fin[f].cause \in {"L82", "L107", "L130", "L133", "L137", "L139"}

\* C10: the content of the note of a run is the caption of the first message
\* of its batch that has one; without any it is the file placeholder for a
\* batch of one message and the group placeholder otherwise.
C10_NoteContent ==
    \A n \in 1..Len(notes) :
        LET batch == fin[notes[n].by].at_removal
            with == {k \in 1..Len(batch) : msgs[batch[k]].caption # ""}
        IN  /\ with # {}
                => \E k \in with : /\ \A l \in with : k <= l
                                   /\ notes[n].content = msgs[batch[k]].caption
            /\ with = {}
                => notes[n].content = IF Len(batch) = 1 THEN FilePlaceholder
                                      ELSE GroupPlaceholder

\* A note has the caption of the second message of its batch, the first has
\* none and the third has another.
C10_Witness ==
    \E n \in 1..Len(notes) :
        LET batch == fin[notes[n].by].at_removal IN
        /\ Len(batch) = 3
        /\ msgs[batch[1]].caption = ""
        /\ msgs[batch[2]].caption # ""
        /\ msgs[batch[3]].caption \notin {"", msgs[batch[2]].caption}
        /\ notes[n].content = msgs[batch[2]].caption

\* Whether the k-th attempt of run f is over.
AttemptEnded(f, k) == k < Len(fin[f].attempted) \/ ~InAttempt(f)

\* C11: once the attempt of a run for a message is over, no file holds the
\* bytes retrieved for that message, however the attempt ended; and while no
\* run is inside an attempt there is no file at all.
C11_TempFileRemoved ==
    /\ \A f \in Removed : \A k \in 1..Len(fin[f].attempted) :
           AttemptEnded(f, k) => \A path \in DOMAIN files : files[path] # fin[f].attempted[k]
    /\ (\A f \in Ids : ~InAttempt(f)) => files = <<>>

\* A run is through its loop after one upload that gave a descriptor and one
\* attempt that gave none, and no file is left.
C11_Witness ==
    \E f \in Removed :
        /\ fin[f].pc = "L129"
        /\ Len(fin[f].attempted) = 2
        /\ fin[f].attempted[1] \in Range(fin[f].attachment_objects)
        /\ fin[f].attempted[2] \notin Range(fin[f].attachment_objects)
        /\ files = <<>>

\* The file messages outside any group that handle_file was given.
Singles ==
    {m \in 1..Len(msgs) : HandlesFile(msgs[m]) /\ msgs[m].media_group_id = NoGroup}

InArrivalOrder(seq) == \A k, l \in 1..Len(seq) : k < l => seq[k] < seq[l]

\* The messages for which upload_file of run f posted a file that the server
\* accepted.
Posted(f) == {fin[f].posted[k].message : k \in 1..Len(fin[f].posted)}

\* C13: the batch of a run is in the order of arrival, the messages the run
\* has tried are the first of its batch, in that order, the descriptors it
\* has collected are of messages whose upload succeeded, in the order of
\* arrival, and the attachments of its note are these descriptors.
C13_UploadOrder ==
    /\ \A r \in 1..Len(records) : InArrivalOrder(records[r].messages)
    /\ \A f \in Removed :
          /\ fin[f].attempted = SubSeq(Attachments(f), 1, Len(fin[f].attempted))
          /\ InArrivalOrder(fin[f].attachment_objects)
          /\ Range(fin[f].attachment_objects) \subseteq Posted(f) \cap Range(fin[f].attempted)
          /\ \A n \in NotesBy({f}) : notes[n].attachments = fin[f].attachment_objects

\* The note of a batch of three has the first and the third file; the upload
\* of the second failed.
C13_Witness ==
    \E n \in 1..Len(notes) :
        LET batch == fin[notes[n].by].at_removal IN
        /\ Len(batch) = 3
        /\ notes[n].attachments = <<batch[1], batch[3]>>

\* C14: the record that the test of line 156 found is in the table when
\* line 162 appends to it.
C14_NoRemovalBetweenTestAndAppend ==
    handler.pc = "L162" => Gid \in DOMAIN media_groups

\* The text messages that handle_text was given.
TextMessages == {m \in 1..Len(msgs) : ~HandlesFile(msgs[m]) /\ HandlesText(msgs[m])}

\* C15: when the handler call of a text message has ended, create_note was
\* called exactly once for it, with its text and no attachments; and no step
\* of handle_text changes the group table, the records or the jobs.
C15_TextOneNote ==
    /\ [](\A m \in TextMessages :
             /\ outcome[m] # "running" => Cardinality(NotesBy({m})) = 1
             /\ \A n \in NotesBy({m}) :
                    notes[n].content = msgs[m].text /\ notes[n].attachments = <<>>)
    /\ [][handler.pc \in {"L143", "L144", "L146", "L148"} /\ handler' # handler
             => /\ media_groups' = media_groups /\ records' = records
                /\ jobs' = jobs /\ cancelled' = cancelled]_vars

\* The messages of a sender who is not the authorized one and the messages
\* that are neither text nor attachment.
Unwanted ==
    {m \in 1..Len(msgs) : \/ msgs[m].from_user # AuthorizedUser
                          \/ msgs[m].kind \notin Kinds \cup {"text"}}

\* C16: an unwanted message is given to no handler: it is in no record, no
\* job and no run are its own, no note is made for it; and the step that
\* receives it changes nothing but the list of the updates received.
C16_UnwantedIgnored ==
    /\ [](\A m \in Unwanted :
             /\ outcome[m] = "ignored"
             /\ \A r \in 1..Len(records) : m \notin Range(records[r].messages)
             /\ ~Scheduled(m)
             /\ NotesBy({m}) = {})
    /\ [][Len(msgs') > Len(msgs) /\ Len(msgs') \in Unwanted'
             => UNCHANGED <<media_groups, records, jobs, handler, fin, notes, cancelled,
                            files>>]_vars

\* A photo of a stranger with the id of a group whose record is in the table
\* and whose job is pending has been received.
C16_Witness ==
    \E m \in Unwanted :
        /\ msgs[m].kind = "photo"
        /\ msgs[m].media_group_id \in DOMAIN media_groups
        /\ \E j \in jobs : j.media_group_id = msgs[m].media_group_id

\* C17: the step of line 77 that finds no record changes neither the table
\* and the records nor the notes and the files, and a run that returned at
\* line 79 has sent no reply, tried no file and called create_note never.
C17_NoRecordNoEffect ==
    /\ [](\A f \in Ids : fin[f].pc = "returned"
              => /\ fin[f].replies = 0 /\ fin[f].status = "none"
                 /\ fin[f].attempted = <<>> /\ fin[f].posted = <<>>
                 /\ NotesBy({f}) = {})
    /\ [][\A f \in Ids : fin[f].pc = "L77" /\ fin'[f].pc = "returned"
              => /\ media_groups' = media_groups /\ records' = records
                 /\ notes' = notes /\ files' = files]_vars

\* A run has returned at line 79 while the record of another group is in
\* the table.
C17_Witness ==
    \E f \in Ids : fin[f].pc = "returned" /\ DOMAIN media_groups # {}

Accepted == {m \in 1..Len(msgs) : HandlesFile(msgs[m]) /\ outcome[m] # "running"}

\* C19: no message is in the batch of two runs; and when the handler is
\* idle, no job is pending and no run is still before line 77, every message
\* handle_file was given is in the batch of a run and the table is empty.
C19_EveryMessageFinalizedOnce ==
    /\ \A f1, f2 \in Removed :
          Range(fin[f1].at_removal) \cap Range(fin[f2].at_removal) # {} => f1 = f2
    /\ (handler.pc = "idle" /\ jobs = {} /\ \A f \in Ids : fin[f].pc # "L77")
          => /\ \A m \in Accepted : \E f \in Removed : m \in Range(fin[f].at_removal)
             /\ media_groups = <<>>

\* C20: the bytes that upload_file posted for a message are the bytes that
\* were retrieved for that message.
C20_OwnBytesUploaded ==
    \A f \in Removed : \A k \in 1..Len(fin[f].posted) :
        fin[f].posted[k].bytes = fin[f].posted[k].message

====
